---- MODULE Spec2Model ----
(***************************************************************************)
(* A model of the KaiaFun MCP server and its SDK client                    *)
(* (src/src/sdk/abi.ts, src/src/kaiafun-mcp-server.ts).                     *)
(*                                                                         *)
(* A call is one invocation of a client operation (buy, sell, list,        *)
(* uploadImage), made either directly on an SDK client or through a tool   *)
(* handler of the server.  JavaScript runs the code between two awaits     *)
(* without interruption, so an action is the code from one suspension      *)
(* point to the next: the start of a call up to its first await, and the   *)
(* continuation run when a collaborator (RPC node, HTTP endpoint) answers. *)
(* The collaborators' answers are inputs, drawn with \E.                   *)
(***************************************************************************)
EXTENDS Integers, Sequences, FiniteSets, TLC

VARIABLES
    proc,       \* position of main(): "boot", "serving" or "exited"
    privateKey, \* whether process.env.PRIVATE_KEY is set
    clients,    \* "server": server.kaiaFunClient, "sdk": a client built by an SDK user
    calls,      \* calls[c]: the state of call c (an async invocation in flight)
    x,          \* inputs and result of a stand-alone use of getEventFromReceipt
    heard,      \* heard[c]: the collaborators' answers call c has received, in order
    slots,      \* the calls a caller may have in flight at the same time
    conv        \* a decimal string taken through parse_ether and then format_ether

vars == <<proc, privateKey, clients, calls, x, heard, slots, conv>>

----------------------------------------------------------------------------
(* Bounds *)

\* longest log sequence of a receipt
MaxLogs == 2
\* number of times getEventFromReceipt is applied to the same receipt
MaxApplications == 2

\* the calls that can be in flight; slots tells which of them are used: the
\* design has a single caller that issues one operation at a time, and the
\* request handler itself accepts a second request while the first one waits
Calls == {"c1", "c2"}

----------------------------------------------------------------------------
(* JavaScript values *)

Undefined == [js |-> "undefined"]
Null == [js |-> "null"]
Str(s) == [js |-> "string", v |-> s]
Bool(b) == [js |-> "boolean", v |-> b]
Obj(field, value) == [js |-> "object", field |-> field, value |-> value]

\* the outcome of evaluating v.field: a property read of null or undefined
\* raises a TypeError, a property a value does not have reads as undefined
prop(v, field) ==
    IF v = Null \/ v = Undefined THEN [threw |-> TRUE, value |-> Undefined]
    ELSE IF v.js = "object" /\ v.field = field THEN [threw |-> FALSE, value |-> v.value]
    ELSE [threw |-> FALSE, value |-> Undefined]

----------------------------------------------------------------------------
(* bigint: a non-negative integer is the sequence of its decimal digits,   *)
(* most significant first, without leading zeros (zero is <<0>>)           *)

RECURSIVE stripLeadingZeros(_)
stripLeadingZeros(d) ==
    IF Len(d) > 1 /\ d[1] = 0 THEN stripLeadingZeros(Tail(d)) ELSE d

RECURSIVE stripTrailingZeros(_)
stripTrailingZeros(d) ==
    IF Len(d) > 0 /\ d[Len(d)] = 0 THEN stripTrailingZeros(SubSeq(d, 1, Len(d) - 1)) ELSE d

\* a < b
bigLess(a, b) ==
    \/ Len(a) < Len(b)
    \/ /\ Len(a) = Len(b)
       /\ \E i \in 1..Len(a) : a[i] < b[i] /\ \A j \in 1..(i - 1) : a[j] = b[j]

Zeros(n) == [i \in 1..n |-> 0]
Nines(n) == [i \in 1..n |-> 9]

\* decimals of the native currency
etherDecimals == 18

\* viem's parseEther on a decimal string given as its integer digits and its
\* fraction digits (at most etherDecimals of them): the fraction loses its
\* trailing zeros, is padded to the unit's precision and joined to the integer
parseEther(int, frac) ==
    LET f == stripTrailingZeros(frac)
    IN  stripLeadingZeros(int \o f \o Zeros(etherDecimals - Len(f)))

----------------------------------------------------------------------------
(* Strings and signed amounts.  A string that the code takes apart is the   *)
(* sequence of its characters; a bigint that may be negative is a sign and  *)
(* a magnitude                                                              *)

DigitChars == <<"0", "1", "2", "3", "4", "5", "6", "7", "8", "9">>

isDigit(ch) == \E i \in 1..Len(DigitChars) : DigitChars[i] = ch
digitOf(ch) == (CHOOSE i \in 1..Len(DigitChars) : DigitChars[i] = ch) - 1
charOf(d) == DigitChars[d + 1]

digitsOf(s) == [i \in 1..Len(s) |-> digitOf(s[i])]
charsOf(d) == [i \in 1..Len(d) |-> charOf(d[i])]

Amount(neg, mag) == [neg |-> neg, mag |-> mag]
ZeroAmount == Amount(FALSE, <<0>>)

\* amount > 0n
positive(a) == ~a.neg /\ a.mag # <<0>>

\* value.toString()
bigintToString(a) == (IF a.neg THEN <<"-">> ELSE <<>>) \o charsOf(a.mag)

\* BigInt(string) for a string without blanks: an optional sign and decimal
\* digits give the integer (none give 0n), anything else raises a SyntaxError
BigIntOfString(s) ==
    LET neg == s # <<>> /\ s[1] = "-"
        body == IF neg THEN Tail(s) ELSE s
    IN  IF (\A i \in 1..Len(body) : isDigit(body[i])) /\ ~(neg /\ body = <<>>)
        THEN LET mag == stripLeadingZeros(<<0>> \o digitsOf(body))
             IN  [threw |-> FALSE, value |-> Amount(neg /\ mag # <<0>>, mag)]
        ELSE [threw |-> TRUE, value |-> ZeroAmount]

\* the strings viem's parseUnits accepts: /^(-?)([0-9]*)\.?([0-9]*)$/
isDecimalString(s) ==
    LET body == IF s # <<>> /\ s[1] = "-" THEN Tail(s) ELSE s
    IN  /\ \A i \in 1..Len(body) : isDigit(body[i]) \/ body[i] = "."
        /\ Cardinality({i \in 1..Len(body) : body[i] = "."}) <= 1

\* the index of the "." of a string, 0 without one
dotOf(s) == IF \E i \in 1..Len(s) : s[i] = "."
            THEN CHOOSE i \in 1..Len(s) : s[i] = "." ELSE 0

\* parseEther(string): the string is split at the ".", a missing fraction is
\* '0', the sign is set aside and put back before BigInt reads the digits
parseEtherString(s) ==
    IF ~isDecimalString(s) THEN [threw |-> TRUE, value |-> ZeroAmount]
    ELSE LET neg == s # <<>> /\ s[1] = "-"
             body == IF neg THEN Tail(s) ELSE s
             dot == dotOf(body)
             int == IF dot = 0 THEN body ELSE SubSeq(body, 1, dot - 1)
             frac == IF dot = 0 THEN <<"0">> ELSE SubSeq(body, dot + 1, Len(body))
             mag == parseEther(digitsOf(int), digitsOf(frac))
         IN  [threw |-> FALSE, value |-> Amount(neg /\ mag # <<0>>, mag)]

\* formatEther(value): the digits are padded on the left to the unit's
\* precision and cut there, the fraction loses its trailing zeros, an empty
\* integer part reads '0' and an empty fraction is left out with its "."
\* (a faulty variant that keeps the fraction's trailing zeros comes first)
formatEtherKeepingZeros(a) ==
    LET padded == Zeros(etherDecimals - Len(a.mag)) \o a.mag
        cut == Len(padded) - etherDecimals
        integer == SubSeq(padded, 1, cut)
        fraction == SubSeq(padded, cut + 1, Len(padded))
    IN  (IF a.neg THEN <<"-">> ELSE <<>>)
            \o (IF integer = <<>> THEN <<"0">> ELSE charsOf(integer))
            \o (IF fraction = <<>> THEN <<>> ELSE <<".">> \o charsOf(fraction))
formatEther(a) ==
    LET padded == Zeros(etherDecimals - Len(a.mag)) \o a.mag
        cut == Len(padded) - etherDecimals
        integer == SubSeq(padded, 1, cut)
        fraction == stripTrailingZeros(SubSeq(padded, cut + 1, Len(padded)))
    IN  (IF a.neg THEN <<"-">> ELSE <<>>)
            \o (IF integer = <<>> THEN <<"0">> ELSE charsOf(integer))
            \o (IF fraction = <<>> THEN <<>> ELSE <<".">> \o charsOf(fraction))

----------------------------------------------------------------------------
(* Chain descriptor and client construction *)

kaiaMainnetId == 8217

Num(n) == [js |-> "number", v |-> n]

\* walletClient.chain?.id of the wallet clients a caller may hand to the
\* constructor: undefined for a wallet client built without a chain
WalletChainIds == {Undefined, Num(1), Num(1001), Num(kaiaMainnetId)}

\* the walletClient option of the constructor: omitted, or a wallet client
WalletOptions ==
    {[given |-> FALSE, chainId |-> Undefined]}
        \cup {[given |-> TRUE, chainId |-> id] : id \in WalletChainIds}

NoClient == [built |-> FALSE, chainId |-> Undefined]

\* new KaiaFunClient({account, walletClient}): without the option the client
\* creates its own wallet client on kaiaMainnet
newKaiaFunClient(walletClient) ==
    [built |-> TRUE,
     chainId |-> IF walletClient.given THEN walletClient.chainId ELSE Num(kaiaMainnetId)]

setupKaiaFunClient == newKaiaFunClient([given |-> FALSE, chainId |-> Undefined])

\* the guard of buy, sell and list: this.walletClient.chain?.id !== kaiaMainnet.id
\* (a faulty variant that rejects only a wallet client without a chain)
unsupportedChainIfNoChain(client) == client.chainId = Undefined
unsupportedChain(client) == client.chainId # Num(kaiaMainnetId)

----------------------------------------------------------------------------
(* Event extraction *)

EventNames == {"Trade", "List"}

\* a log entry: sig is the event its first topic names, wellFormed tells
\* whether its topics and data fit that event's shape, data is its payload
Log(sig, wellFormed, data) == [sig |-> sig, wellFormed |-> wellFormed, data |-> data]

NoReceipt == Undefined
Receipt(status, logs) ==
    [js |-> "object", status |-> status, logs |-> logs, transactionHash |-> "0xhash"]

\* the body of the map callback: decodeEventLog({abi, data, topics}) raises
\* when no shape of abi has the log's signature or the log does not fit the
\* shape, and the catch turns that into undefined
tryDecode(abi, log) ==
    IF log.sig \in abi /\ log.wellFormed
    THEN [js |-> "object", eventName |-> Str(log.sig), args |-> log.data]
    ELSE Undefined

\* log?.eventName
eventNameOf(decoded) == IF decoded = Undefined THEN Undefined ELSE decoded.eventName

\* Array.prototype.find with the predicate log?.eventName === eventName
\* (a faulty variant that searches from the end comes first)
RECURSIVE findLast(_, _)
findLast(decoded, eventName) ==
    IF decoded = <<>> THEN Undefined
    ELSE IF eventNameOf(decoded[Len(decoded)]) = eventName THEN decoded[Len(decoded)]
    ELSE findLast(SubSeq(decoded, 1, Len(decoded) - 1), eventName)
RECURSIVE find(_, _)
find(decoded, eventName) ==
    IF decoded = <<>> THEN Undefined
    ELSE IF eventNameOf(Head(decoded)) = eventName THEN Head(decoded)
    ELSE find(Tail(decoded), eventName)

\* receipt?.logs.map(...).find(...)
getEventFromReceipt(receipt, abi, eventName) ==
    IF receipt = NoReceipt THEN Undefined
    ELSE find([i \in 1..Len(receipt.logs) |-> tryDecode(abi, receipt.logs[i])], eventName)

\* the receipt's log array once getEventFromReceipt has returned: map and find
\* build new values and leave the array they are applied to as it was
\* (a faulty variant that consumes the array, as a shift() loop would, comes first)
logsAfterExtractConsuming(logs) == IF logs = <<>> THEN logs ELSE Tail(logs)
logsAfterExtract(logs) == logs

----------------------------------------------------------------------------
(* Errors and the tool layer's rendering of them *)

\* new Error(message): no code, and JSON.stringify renders it
Error(message) == [message |-> message, code |-> FALSE, jsonable |-> TRUE]

\* an error raised by a collaborator (viem, axios): it may carry a code, and
\* it may hold values JSON.stringify refuses (a bigint, a cycle)
LibErrors(message) ==
    {[message |-> message, code |-> c, jsonable |-> j] : c \in BOOLEAN, j \in BOOLEAN}

\* the TypeError JSON.stringify raises for a value it refuses
StringifyError == Error("Do not know how to serialize a BigInt")

\* formatError(error): JSON.stringify(error) comes first and may raise
formatError(error) ==
    [threw |-> ~error.jsonable,
     text |-> IF error.code THEN <<"Error (code): ", error.message>> ELSE <<error.message>>]

NoResult == [type |-> "none"]

\* return { content: [{ type: 'text', text }] }, the text in its parts
textContent(parts) == [type |-> "text", text |-> parts]

\* the handler's promise rejects with error
rejected(error) == [type |-> "rejected", message |-> error.message]

\* a handler's catch block:
\* return { content: [{ type: 'text', text: prefix + formatError(error) }] };
\* what formatError raises leaves the handler
handlerCatch(prefix, error) ==
    LET f == formatError(error)
    IN  IF f.threw THEN rejected(StringifyError)
        ELSE textContent(<<prefix>> \o f.text)

\* the catch block of a try nested in the handler's try (get_token_balance,
\* upload_image): what formatError raises there lands in the outer catch
innerCatch(prefix, outerPrefix, error) ==
    LET f == formatError(error)
    IN  IF f.threw THEN handlerCatch(outerPrefix, StringifyError)
        ELSE textContent(<<prefix>> \o f.text)

\* the names the tool list advertises
TOOL_DEFINITIONS ==
    {"list_memecoin", "buy_memecoin", "sell_memecoin", "get_token_info",
     "get_token_url", "parse_ether", "format_ether", "get_wallet_balance",
     "get_wallet_address", "get_token_balance", "get_transaction_history",
     "upload_image"}

\* the keys of the object createToolHandlers returns
toolHandlers ==
    {"list_memecoin", "buy_memecoin", "sell_memecoin", "get_token_info",
     "get_token_url", "parse_ether", "format_ether", "get_wallet_balance",
     "get_wallet_address", "get_token_balance", "upload_image"}

ErrorPrefix(tool) ==
    CASE tool = "list_memecoin" -> "Error listing memecoin: "
      [] tool = "buy_memecoin" -> "Error buying memecoin: "
      [] tool = "sell_memecoin" -> "Error selling memecoin: "
      [] tool = "get_token_info" -> "Error getting token info: "
      [] tool = "get_token_url" -> "Error getting token URL: "
      [] tool = "parse_ether" -> "Error parsing ether: "
      [] tool = "format_ether" -> "Error formatting ether: "
      [] tool = "get_wallet_balance" -> "Error getting wallet balance: "
      [] tool = "get_wallet_address" -> "Error getting wallet address: "
      [] tool = "get_token_balance" -> "Error getting token balance: "
      [] tool = "upload_image" -> "Error uploading image: "

SuccessHead(tool) ==
    CASE tool = "list_memecoin" -> "Successfully listed new memecoin!"
      [] tool = "buy_memecoin" -> "Successfully bought memecoin!"
      [] tool = "sell_memecoin" -> "Successfully sold memecoin!"
      [] tool = "upload_image" -> "Successfully uploaded image to KaiaFun!"

\* the text a handler returns once the client operation has returned result;
\* list_memecoin reads result.listEvent?.args.tokenAddress || 'Unknown'
handlerSuccess(tool, result) ==
    textContent(IF tool = "list_memecoin"
                THEN <<SuccessHead(tool),
                       IF result.event = Undefined THEN "Unknown" ELSE result.event.args,
                       result.receipt.transactionHash>>
                ELSE <<SuccessHead(tool), result.receipt.transactionHash>>)

----------------------------------------------------------------------------
(* The state of a call *)

NoTx == [sent |-> FALSE]

IdleCall ==
    [pc |-> "idle", via |-> "none",
     tool |-> "none",           \* the tool name of the request
     args |-> Undefined,        \* the arguments of the request
     op |-> "none",             \* the client operation invoked
     input |-> Undefined,       \* the options handed to the client operation
     trace |-> <<>>,            \* the steps taken, in order
     balance |-> <<>>,          \* the balance read
     document |-> Undefined,    \* the metadata document list serialized
     posted |-> NoResult,       \* the data of the metadata endpoint's response
     metadataHash |-> Undefined,
     request |-> Undefined,     \* the parameters handed to writeContract
     tx |-> NoTx,               \* the contract call submitted
     receipt |-> NoReceipt,
     tempFile |-> "none",       \* upload_image's temp file: "none", "exists", "deleted"
     reads |-> <<>>,            \* what get_token_balance has read from the token
     ret |-> NoResult,          \* how the client operation ended
     toolResult |-> NoResult]   \* how the tool handler ended

\* !uploadedUrl
falsy(v) == v \in {Undefined, Null, Str("")}

\* upload_image once uploadImage has returned: a falsy result raises into the
\* inner catch, otherwise the temp file is unlinked
uploadImageReturned(rec) ==
    IF falsy(rec.ret.value)
    THEN [rec EXCEPT !.toolResult =
                 innerCatch("Error processing image: ", ErrorPrefix(rec.tool),
                            Error("Failed to upload image to KaiaFun server"))]
    ELSE [rec EXCEPT !.tempFile = "deleted",
                     !.toolResult = textContent(<<SuccessHead(rec.tool),
                                                  rec.args.imageURL.v, rec.ret.value.v>>)]

\* the client operation ends: its promise settles, and a tool handler that
\* awaits it goes on
settle(rec, ret) ==
    LET r == [rec EXCEPT !.pc = "done", !.ret = ret]
    IN  IF rec.via # "tool" THEN r
        ELSE IF rec.tool = "upload_image" THEN uploadImageReturned(r)
        ELSE IF ret.type = "throw"
             THEN [r EXCEPT !.toolResult = handlerCatch(ErrorPrefix(rec.tool), ret.error)]
             ELSE [r EXCEPT !.toolResult = handlerSuccess(rec.tool, ret.value)]

throw(rec, error) == settle(rec, [type |-> "throw", error |-> error])
return(rec, value) == settle(rec, [type |-> "return", value |-> value])

\* the operation starts step and suspends at its await
suspend(rec, pc, step) == [rec EXCEPT !.pc = pc, !.trace = Append(@, step)]

step(rec, name) == [rec EXCEPT !.trace = Append(@, name)]

----------------------------------------------------------------------------
(* The client operations, from one suspension point to the next *)

\* parseEther('10')
ListingFee == parseEther(<<1, 0>>, <<>>)

\* balance < parseEther('10')
\* (a faulty variant that also rejects a balance equal to the fee comes first)
insufficientBalanceOrEqual(balance) == ~bigLess(ListingFee, balance)
insufficientBalance(balance) == bigLess(balance, ListingFee)

EventOf(op) == IF op = "list" THEN "List" ELSE "Trade"

FunctionOf(op) ==
    CASE op = "buy" -> "buyWithETH"
      [] op = "sell" -> "sell"
      [] op = "list" -> "listWithETH"

\* the two addresses of ./constants, by name
KAIAFUN_CORE_ADDRESS == Str("KAIAFUN_CORE_ADDRESS")
WETH_ADDRESS == Str("WETH_ADDRESS")

\* this.walletClient.account.address
AccountAddress == Str("0xsigner")

\* a destructuring default: it applies to a property that is undefined
default(v, d) == IF v = Undefined THEN d ELSE v

\* the parameters buy hands to writeContract
buyRequest(options) ==
    [address |-> KAIAFUN_CORE_ADDRESS, functionName |-> "buyWithETH",
     args |-> <<options.tokenAddress, default(options.minTokenAmount, ZeroAmount)>>,
     value |-> options.amount]

\* the parameters sell hands to writeContract: no value
\* (a faulty variant whose isOutputKAIA defaults to false comes first)
sellRequestDefaultingToToken(options) ==
    [address |-> KAIAFUN_CORE_ADDRESS, functionName |-> "sell",
     args |-> <<options.tokenAddress, options.amount,
                default(options.minBaseAmount, ZeroAmount),
                default(options.isOutputKAIA, Bool(FALSE))>>,
     value |-> Undefined]
sellRequest(options) ==
    [address |-> KAIAFUN_CORE_ADDRESS, functionName |-> "sell",
     args |-> <<options.tokenAddress, options.amount,
                default(options.minBaseAmount, ZeroAmount),
                default(options.isOutputKAIA, Bool(TRUE))>>,
     value |-> Undefined]

\* the parameters list hands to writeContract: value: parseEther('10')
listRequest(options, metadataHash) ==
    [address |-> KAIAFUN_CORE_ADDRESS, functionName |-> "listWithETH",
     args |-> <<WETH_ADDRESS, options.metadata.name, options.metadata.symbol, metadataHash>>,
     value |-> Amount(FALSE, ListingFee)]

\* the operation calls walletClient.writeContract and suspends
submit(rec) ==
    LET request == CASE rec.op = "buy" -> buyRequest(rec.input)
                     [] rec.op = "sell" -> sellRequest(rec.input)
                     [] rec.op = "list" -> listRequest(rec.input, rec.metadataHash)
    IN  suspend([rec EXCEPT !.request = request], "awaitWrite", "writeContract")

\* the document list serializes: JSON.stringify({name, symbol, description,
\* imageURL, creator, t: Date.now()})
serialized(metadata) ==
    [name |-> metadata.name, symbol |-> metadata.symbol,
     description |-> metadata.description, imageURL |-> metadata.imageURL,
     creator |-> AccountAddress, t |-> Str("Date.now()")]

\* list serializes the metadata, calls axios.post and suspends
post(rec) ==
    suspend([rec EXCEPT !.document = serialized(rec.input.metadata)], "awaitPost", "post")

\* buy, sell, list and uploadImage up to their first await
\* (a faulty variant in which list posts the metadata before anything else
\* comes first)
enterListPostFirst(rec, client) ==
    IF rec.op = "uploadImage" THEN suspend(rec, "awaitUpload", "upload")
    ELSE IF unsupportedChain(client)
         THEN throw(step(rec, "chainCheck"), Error("Unsupported chain"))
         ELSE IF rec.op = "list"
              THEN post(step(rec, "chainCheck"))
              ELSE submit(step(rec, "chainCheck"))
enter(rec, client) ==
    IF rec.op = "uploadImage" THEN suspend(rec, "awaitUpload", "upload")
    ELSE IF unsupportedChain(client)
         THEN throw(step(rec, "chainCheck"), Error("Unsupported chain"))
         ELSE IF rec.op = "list"
              THEN suspend(step(rec, "chainCheck"), "awaitBalance", "getBalance")
              ELSE submit(step(rec, "chainCheck"))

\* list after publicClient.getBalance has answered
afterBalance(rec, outcome) ==
    IF ~outcome.ok THEN throw(step(rec, "getBalance.failed"), outcome.error)
    ELSE LET r == [step(rec, "getBalance.done") EXCEPT !.balance = outcome.value]
         IN  IF insufficientBalance(outcome.value)
             THEN throw(r, Error("Insufficient balance"))
             ELSE post(r)

\* list after axios.post has answered: const { data: { hash: metadataHash } } = ...
\* (a faulty variant that submits without the hash it received comes first)
afterPostDroppingHash(rec, outcome) ==
    IF ~outcome.ok THEN throw(step(rec, "post.failed"), outcome.error)
    ELSE LET hash == prop(outcome.value, "hash")
             r == [step(rec, "post.done") EXCEPT !.posted = outcome.value]
         IN  IF hash.threw THEN throw(r, Error("Cannot destructure property 'hash'"))
             ELSE submit(r)
afterPost(rec, outcome) ==
    IF ~outcome.ok THEN throw(step(rec, "post.failed"), outcome.error)
    ELSE LET hash == prop(outcome.value, "hash")
             r == [step(rec, "post.done") EXCEPT !.posted = outcome.value]
         IN  IF hash.threw THEN throw(r, Error("Cannot destructure property 'hash'"))
             ELSE submit([r EXCEPT !.metadataHash = hash.value])

\* buy, sell and list after walletClient.writeContract has answered
\* (a faulty variant that submits again after a failure comes first)
afterWriteRetrying(rec, outcome) ==
    IF ~outcome.ok
    THEN IF Len(rec.trace) < 12
         THEN suspend(step(rec, "writeContract.failed"), "awaitWrite", "writeContract")
         ELSE throw(step(rec, "writeContract.failed"), outcome.error)
    ELSE suspend([step(rec, "writeContract.done") EXCEPT
                      !.tx = [sent |-> TRUE, functionName |-> FunctionOf(rec.op),
                              metadataHash |-> rec.metadataHash]],
                 "awaitReceipt", "wait")
afterWrite(rec, outcome) ==
    IF ~outcome.ok THEN throw(step(rec, "writeContract.failed"), outcome.error)
    ELSE suspend([step(rec, "writeContract.done") EXCEPT
                      !.tx = [sent |-> TRUE, functionName |-> FunctionOf(rec.op),
                              metadataHash |-> rec.metadataHash]],
                 "awaitReceipt", "wait")

\* buy, sell and list after waitForTransactionReceipt has answered
\* (a faulty variant that raises when the event is absent comes first)
afterReceiptRequiringEvent(rec, outcome) ==
    IF ~outcome.ok THEN throw(step(rec, "wait.failed"), outcome.error)
    ELSE LET r == [step(step(rec, "wait.done"), "decode") EXCEPT !.receipt = outcome.value]
             event == getEventFromReceipt(outcome.value, {EventOf(rec.op)}, Str(EventOf(rec.op)))
         IN  IF event = Undefined THEN throw(r, Error("Event not found"))
             ELSE return(r, [receipt |-> outcome.value, event |-> event])
afterReceipt(rec, outcome) ==
    IF ~outcome.ok THEN throw(step(rec, "wait.failed"), outcome.error)
    ELSE LET r == [step(step(rec, "wait.done"), "decode") EXCEPT !.receipt = outcome.value]
             event == getEventFromReceipt(outcome.value, {EventOf(rec.op)}, Str(EventOf(rec.op)))
         IN  return(r, [receipt |-> outcome.value, event |-> event])

\* uploadImage after axios.post has answered: return data.url, and the catch
\* returns null
afterUpload(rec, outcome) ==
    IF ~outcome.ok THEN return(step(rec, "upload.failed"), Null)
    ELSE LET url == prop(outcome.value, "url")
             r == [step(rec, "upload.done") EXCEPT !.posted = outcome.value]
         IN  IF url.threw THEN return(r, Null) ELSE return(r, url.value)

----------------------------------------------------------------------------
(* The tool handlers *)

\* /^0x[a-fA-F0-9]{40}$/ over the two addresses a request may carry: one that
\* is well-formed and one that is not
isAddress(v) == v = Str("0xToken")

\* z.string().url() over the two image URLs a request may carry
isUrl(v) == v = Str("https://example.com/cat.png")

\* a string argument the handler takes apart, as its characters
StrOf(chars) == [js |-> "string", chars |-> chars]

\* value ? ... : ... on an optional string argument
truthy(v) == v # Undefined /\ v.chars # <<>>

\* schemas.toolInputs.<tool>.parse(args) returns rather than raises
schemaAccepts(tool, args) ==
    CASE tool = "list_memecoin" ->
            /\ args.name.v # "" /\ args.symbol.v # "" /\ args.description.v # ""
            /\ isUrl(args.imageURL)
      [] tool \in {"buy_memecoin", "sell_memecoin"} ->
            isAddress(args.tokenAddress) /\ args.amount.chars # <<>>
      [] tool \in {"get_token_info", "get_token_url", "get_token_balance"} ->
            isAddress(args.tokenAddress)
      [] tool \in {"parse_ether", "format_ether"} -> args.amount.chars # <<>>
      [] tool = "upload_image" -> isUrl(args.imageURL)
      [] OTHER -> TRUE

\* the handlers that begin with: if (!server.kaiaFunClient) throw ...
needsClient(tool) ==
    tool \in {"list_memecoin", "buy_memecoin", "sell_memecoin", "get_wallet_balance",
              "get_wallet_address", "get_token_balance", "upload_image"}

\* optional ? parseEther(optional) : 0n
parseOptional(v) ==
    IF truthy(v) THEN parseEtherString(v.chars) ELSE [threw |-> FALSE, value |-> ZeroAmount]

\* a handler up to its first await, or to its end when it has none
handlerEnter(rec, client) ==
    LET tool == rec.tool
        args == rec.args
        fail(error) ==
            [rec EXCEPT !.pc = "done",
                        !.toolResult = handlerCatch(ErrorPrefix(tool), error)]
        done(parts) == [rec EXCEPT !.pc = "done", !.toolResult = textContent(parts)]
    IN  IF ~schemaAccepts(tool, args) THEN fail(Error("ZodError"))
        ELSE IF needsClient(tool) /\ ~client.built
             THEN fail(Error("KaiaFun client not initialized"))
        ELSE CASE tool = "list_memecoin" ->
                    enter([rec EXCEPT !.op = "list", !.input = [metadata |-> args]], client)
               [] tool = "buy_memecoin" ->
                    LET amount == parseEtherString(args.amount.chars)
                        min == parseOptional(args.minTokenAmount)
                    IN  IF amount.threw \/ min.threw
                        THEN fail(Error("InvalidDecimalNumberError"))
                        ELSE enter([rec EXCEPT !.op = "buy",
                                               !.input = [tokenAddress |-> args.tokenAddress,
                                                          amount |-> amount.value,
                                                          minTokenAmount |-> min.value]],
                                   client)
               [] tool = "sell_memecoin" ->
                    LET amount == parseEtherString(args.amount.chars)
                        min == parseOptional(args.minBaseAmount)
                    IN  IF amount.threw \/ min.threw
                        THEN fail(Error("InvalidDecimalNumberError"))
                        ELSE enter([rec EXCEPT !.op = "sell",
                                               !.input = [tokenAddress |-> args.tokenAddress,
                                                          amount |-> amount.value,
                                                          minBaseAmount |-> min.value,
                                                          isOutputKAIA |-> args.isOutputKAIA]],
                                   client)
               [] tool = "get_token_info" ->
                    done(<<"Token information for ", args.tokenAddress.v>>)
               [] tool = "get_token_url" ->
                    done(<<"Token URL: https://kaiafun.io/token/", args.tokenAddress.v>>)
               [] tool = "parse_ether" ->
                    LET parsed == parseEtherString(args.amount.chars)
                    IN  IF parsed.threw THEN fail(Error("InvalidDecimalNumberError"))
                        ELSE done(args.amount.chars \o <<" KAIA = ">>
                                      \o bigintToString(parsed.value) \o <<" wei">>)
               [] tool = "format_ether" ->
                    LET value == BigIntOfString(args.amount.chars)
                    IN  IF value.threw THEN fail(Error("SyntaxError"))
                        ELSE done(args.amount.chars \o <<" wei = ">>
                                      \o formatEther(value.value) \o <<" KAIA">>)
               [] tool = "get_wallet_balance" -> suspend(rec, "awaitBalance", "getBalance")
               [] tool = "get_wallet_address" -> done(<<"Wallet Address: ", AccountAddress.v>>)
               [] tool = "get_token_balance" -> suspend(rec, "awaitRead", "readContract")
               [] tool = "upload_image" -> suspend(rec, "awaitDownload", "download")

\* the call-tool request handler: toolHandlers[name], and
\* throw new Error(`Unknown tool: ${name}`) without one
callTool(rec, client) ==
    IF rec.tool \notin toolHandlers
    THEN [rec EXCEPT !.pc = "done", !.toolResult = rejected(Error("Unknown tool"))]
    ELSE handlerEnter(rec, client)

\* get_wallet_balance after publicClient.getBalance has answered
afterWalletBalance(rec, outcome) ==
    IF ~outcome.ok
    THEN [step(rec, "getBalance.failed") EXCEPT
              !.pc = "done",
              !.toolResult = handlerCatch(ErrorPrefix(rec.tool), outcome.error)]
    ELSE [step(rec, "getBalance.done") EXCEPT
              !.pc = "done", !.balance = outcome.value,
              !.toolResult = textContent(<<"Wallet Balance: ">>
                                             \o formatEther(Amount(FALSE, outcome.value))
                                             \o <<" KAIA">>)]

\* what get_token_balance reads from the token contract, in order
TokenReads == <<"decimals", "symbol", "balanceOf">>

\* get_token_balance after publicClient.readContract has answered; the text
\* names the token and its symbol (the balance it prints is left out)
afterRead(rec, outcome) ==
    IF ~outcome.ok
    THEN [step(rec, "readContract.failed") EXCEPT
              !.pc = "done",
              !.toolResult = innerCatch("Error reading token contract: ",
                                        ErrorPrefix(rec.tool), outcome.error)]
    ELSE LET r == [step(rec, "readContract.done") EXCEPT !.reads = Append(@, outcome.value)]
         IN  IF Len(r.reads) < Len(TokenReads) THEN suspend(r, "awaitRead", "readContract")
             ELSE [r EXCEPT !.pc = "done",
                            !.toolResult = textContent(<<"Token Balance for ",
                                                         rec.args.tokenAddress.v,
                                                         r.reads[2].v>>)]

\* upload_image after axios.get of downloadImageToTempFile has answered: a
\* failure becomes new Error('Failed to download image from URL'); otherwise
\* the temp file is written and uploadImage is called on a File made of it
afterDownload(rec, outcome, client) ==
    IF ~outcome.ok
    THEN [step(rec, "download.failed") EXCEPT
              !.pc = "done",
              !.toolResult = innerCatch("Error processing image: ", ErrorPrefix(rec.tool),
                                        Error("Failed to download image from URL"))]
    ELSE enter([step(rec, "download.done") EXCEPT
                    !.tempFile = "exists", !.op = "uploadImage",
                    !.input = [name |-> Str("uuid.png"), type |-> outcome.value]],
               client)

\* the continuation of a suspended call when its collaborator answers
resume(rec, outcome, client) ==
    CASE rec.pc = "awaitBalance" ->
            IF rec.op = "list" THEN afterBalance(rec, outcome)
            ELSE afterWalletBalance(rec, outcome)
      [] rec.pc = "awaitPost" -> afterPost(rec, outcome)
      [] rec.pc = "awaitWrite" -> afterWrite(rec, outcome)
      [] rec.pc = "awaitReceipt" -> afterReceipt(rec, outcome)
      [] rec.pc = "awaitUpload" -> afterUpload(rec, outcome)
      [] rec.pc = "awaitRead" -> afterRead(rec, outcome)
      [] rec.pc = "awaitDownload" -> afterDownload(rec, outcome, client)

----------------------------------------------------------------------------
(* The callers' inputs *)

TokenAddresses == {Str("0xToken"), Str("0xbad")}

ImageURLs == {Str("https://example.com/cat.png"), Str("not a url")}

\* amount strings: positive, zero, negative, empty, not a number
AmountStrings == {<<"1">>, <<"0">>, <<"-", "1">>, <<>>, <<"1", "-">>}

\* the optional social links of a token's metadata: none, one, all
SocialLinks ==
    {[twitter |-> Undefined, telegram |-> Undefined, website |-> Undefined],
     [twitter |-> Str("@cat"), telegram |-> Undefined, website |-> Undefined],
     [twitter |-> Str("@cat"), telegram |-> Str("t.me/cat"), website |-> Str("cat.example")]}

\* KaiaFunSchema.Metadata
Metadata(name, links) ==
    [name |-> Str(name), symbol |-> Str("CAT"), description |-> Str("a cat"),
     imageURL |-> Str("https://example.com/cat.png"),
     twitter |-> links.twitter, telegram |-> links.telegram, website |-> links.website]

\* the arguments of a request without any
EmptyArgs == [js |-> "object"]

\* the arguments a call-tool request may carry
ToolArgs(tool) ==
    CASE tool = "list_memecoin" ->
            {Metadata(name, links) : name \in {"Cat", ""}, links \in SocialLinks}
      [] tool = "buy_memecoin" ->
            {[tokenAddress |-> t, amount |-> StrOf(a), minTokenAmount |-> m] :
                t \in TokenAddresses, a \in AmountStrings,
                m \in {Undefined, StrOf(<<>>), StrOf(<<"5">>)}}
      [] tool = "sell_memecoin" ->
            {[tokenAddress |-> t, amount |-> StrOf(a), minBaseAmount |-> m, isOutputKAIA |-> k] :
                t \in TokenAddresses, a \in AmountStrings,
                m \in {Undefined, StrOf(<<"5">>)},
                k \in {Undefined, Bool(TRUE), Bool(FALSE)}}
      [] tool \in {"get_token_info", "get_token_url", "get_token_balance"} ->
            {[tokenAddress |-> t] : t \in TokenAddresses}
      [] tool \in {"parse_ether", "format_ether"} ->
            {[amount |-> StrOf(a)] : a \in AmountStrings}
      [] tool = "upload_image" -> {[imageURL |-> u] : u \in ImageURLs}
      [] OTHER -> {EmptyArgs}

\* of them, well-formed arguments that leave every option out
TypicalArgs(tool) ==
    {args \in ToolArgs(tool) :
        /\ schemaAccepts(tool, args)
        /\ tool = "list_memecoin" => args.twitter = Undefined
        /\ tool \in {"buy_memecoin", "sell_memecoin", "parse_ether", "format_ether"}
              => args.amount.chars = <<"1">>
        /\ tool = "buy_memecoin" => args.minTokenAmount = Undefined
        /\ tool = "sell_memecoin" => args.minBaseAmount = Undefined /\ args.isOutputKAIA = Undefined}

\* the options an SDK user may hand to a client operation
SdkOptions(op) ==
    CASE op = "buy" ->
            {[tokenAddress |-> Str("0xToken"), amount |-> a, minTokenAmount |-> m] :
                a \in {Amount(FALSE, <<1>>), ZeroAmount, Amount(TRUE, <<1>>)},
                m \in {Undefined, Amount(FALSE, <<5>>)}}
      [] op = "sell" ->
            {[tokenAddress |-> Str("0xToken"), amount |-> a, minBaseAmount |-> m,
              isOutputKAIA |-> k] :
                a \in {Amount(FALSE, <<1>>), ZeroAmount, Amount(TRUE, <<1>>)},
                m \in {Undefined, Amount(FALSE, <<5>>)},
                k \in {Undefined, Bool(TRUE), Bool(FALSE)}}
      [] op = "list" ->
            {[metadata |-> Metadata(name, links)] : name \in {"Cat", "Dog"}, links \in SocialLinks}
      [] op = "uploadImage" -> {[name |-> Str("cat.png"), type |-> Str("image/png")]}

----------------------------------------------------------------------------
(* The collaborators' answers *)

SeqsUpTo(S, n) == UNION {[1..k -> S] : k \in 0..n}

Balances ==
    {<<0>>, <<5>> \o Zeros(18), Nines(19), <<1>> \o Zeros(19),
     <<1>> \o Zeros(18) \o <<1>>, <<2>> \o Zeros(20)}

Answers(values, failure) ==
    {[ok |-> TRUE, value |-> v] : v \in values}
        \cup {[ok |-> FALSE, error |-> e] : e \in LibErrors(failure)}

\* the answers drawn for a call: with several calls in flight, only the
\* typical values and one failure
Outcomes(values, typical, failure) ==
    IF Cardinality(slots) > 1
    THEN {[ok |-> TRUE, value |-> v] : v \in typical}
            \cup {[ok |-> FALSE, error |-> Error(failure)]}
    ELSE Answers(values, failure)

\* the body of a 2xx response: JSON null, an empty body, an object without
\* the field, an object with it
Bodies(field, value) == {Null, Str(""), Obj("message", Str("ok")), Obj(field, Str(value))}

MainLogs == {Log("Trade", TRUE, "0xa"), Log("List", TRUE, "0xb"), Log("Trade", FALSE, "0xc")}

Receipts == {Receipt(status, logs) : status \in {"success", "reverted"},
                                     logs \in SeqsUpTo(MainLogs, MaxLogs)}

\* viem encodes the value and the uint256 arguments of a call before it sends
\* anything, and refuses a negative one
encodable(request) ==
    /\ request.value # Undefined => ~request.value.neg
    /\ \A i \in 1..Len(request.args) :
          "neg" \in DOMAIN request.args[i] => ~request.args[i].neg

----------------------------------------------------------------------------
(* Actions *)

ConvIdle == [stage |-> "idle", input |-> <<>>, wei |-> <<>>, output |-> <<>>]

XIdle == [receipt |-> NoReceipt, abi |-> {}, eventName |-> Undefined,
          result |-> NoResult, previous |-> NoResult, applied |-> 0]

\* the client a call runs on
ClientOf(rec) == clients[IF rec.via = "tool" THEN "server" ELSE "sdk"]

Init ==
    /\ proc = "boot"
    /\ privateKey \in BOOLEAN
    /\ \E w \in WalletOptions :
          clients = [n \in {"server", "sdk"} |->
                        IF n = "sdk" THEN newKaiaFunClient(w) ELSE NoClient]
    /\ calls = [c \in Calls |-> IdleCall]
    /\ heard = [c \in Calls |-> <<>>]
    /\ slots = {"c1"}
    /\ x = XIdle
    /\ conv = ConvIdle

\* main(): without PRIVATE_KEY it raises and the process exits; otherwise it
\* builds the server's client and connects the transport
\* (a faulty variant that connects the transport whatever the environment
\* holds, and builds no client without the key, comes first)
MainConnectingAnyway ==
    /\ proc = "boot"
    /\ clients' = IF privateKey THEN [clients EXCEPT !["server"] = setupKaiaFunClient]
                  ELSE clients
    /\ proc' = "serving"
    /\ UNCHANGED <<privateKey, calls, x, heard, slots, conv>>
Main ==
    /\ proc = "boot"
    /\ IF ~privateKey
       THEN proc' = "exited" /\ UNCHANGED clients
       ELSE /\ clients' = [clients EXCEPT !["server"] = setupKaiaFunClient]
            /\ proc' = "serving"
    /\ UNCHANGED <<privateKey, calls, x, heard, slots, conv>>

\* a call-tool request: any advertised name, or a name nobody advertised
CallTool(c) ==
    /\ proc = "serving"
    /\ c \in slots
    /\ calls[c].pc = "idle"
    /\ \E tool \in TOOL_DEFINITIONS \cup {"no_such_tool"} :
          \E args \in IF Cardinality(slots) > 1 THEN TypicalArgs(tool) ELSE ToolArgs(tool) :
              calls' = [calls EXCEPT ![c] =
                           callTool([IdleCall EXCEPT !.via = "tool", !.tool = tool,
                                                     !.args = args],
                                    clients["server"])]
    /\ UNCHANGED heard
    /\ UNCHANGED <<proc, privateKey, clients, x, slots, conv>>

\* an SDK user calls an operation of its client
CallSdk(c) ==
    /\ c \in slots
    /\ calls[c].pc = "idle"
    /\ \E op \in {"buy", "sell", "list", "uploadImage"} :
          \E options \in SdkOptions(op) :
              calls' = [calls EXCEPT ![c] =
                           enter([IdleCall EXCEPT !.via = "sdk", !.op = op,
                                                  !.input = options],
                                 clients["sdk"])]
    /\ UNCHANGED heard
    /\ UNCHANGED <<proc, privateKey, clients, x, slots, conv>>

\* publicClient.getBalance answers
BalanceAnswers(c) ==
    /\ c \in slots
    /\ calls[c].pc = "awaitBalance"
    /\ \E outcome \in Outcomes(Balances, {ListingFee}, "getBalance failed") :
          /\ calls' = [calls EXCEPT ![c] = resume(calls[c], outcome, ClientOf(calls[c]))]
          /\ heard' = [heard EXCEPT ![c] = Append(@, outcome)]
    /\ UNCHANGED <<proc, privateKey, clients, x, slots, conv>>

\* the metadata endpoint answers
\* (a faulty variant in which the hash lands in a place all calls read comes
\* first)
PostAnswersSharingHash(c) ==
    /\ c \in slots
    /\ calls[c].pc = "awaitPost"
    /\ \E outcome \in Outcomes(Bodies("hash", "Qm1") \cup {Obj("hash", Str("Qm2"))},
                               {Obj("hash", Str("Qm1")), Obj("hash", Str("Qm2"))},
                               "Request failed") :
          /\ LET mine == resume(calls[c], outcome, ClientOf(calls[c]))
             IN  calls' = [d \in Calls |->
                              IF d = c THEN mine
                              ELSE IF calls[d].op = "list" /\ calls[d].pc = "awaitWrite"
                                   THEN [calls[d] EXCEPT !.metadataHash = mine.metadataHash]
                                   ELSE calls[d]]
          /\ heard' = [heard EXCEPT ![c] = Append(@, outcome)]
    /\ UNCHANGED <<proc, privateKey, clients, x, slots, conv>>
PostAnswers(c) ==
    /\ c \in slots
    /\ calls[c].pc = "awaitPost"
    /\ \E outcome \in Outcomes(Bodies("hash", "Qm1") \cup {Obj("hash", Str("Qm2"))},
                               {Obj("hash", Str("Qm1")), Obj("hash", Str("Qm2"))},
                               "Request failed") :
          /\ calls' = [calls EXCEPT ![c] = resume(calls[c], outcome, ClientOf(calls[c]))]
          /\ heard' = [heard EXCEPT ![c] = Append(@, outcome)]
    /\ UNCHANGED <<proc, privateKey, clients, x, slots, conv>>

\* walletClient.writeContract answers: a hash only for a call it can encode
WriteAnswers(c) ==
    /\ c \in slots
    /\ calls[c].pc = "awaitWrite"
    /\ \E outcome \in Outcomes({Str("0xhash")}, {Str("0xhash")}, "writeContract failed") :
          /\ outcome.ok => encodable(calls[c].request)
          /\ calls' = [calls EXCEPT ![c] = resume(calls[c], outcome, ClientOf(calls[c]))]
          /\ heard' = [heard EXCEPT ![c] = Append(@, outcome)]
    /\ UNCHANGED <<proc, privateKey, clients, x, slots, conv>>

\* waitForTransactionReceipt answers
ReceiptAnswers(c) ==
    /\ c \in slots
    /\ calls[c].pc = "awaitReceipt"
    /\ \E outcome \in Outcomes(Receipts,
                               {Receipt("success", <<Log(EventOf(calls[c].op), TRUE, "0xa")>>)},
                               "waitForTransactionReceipt failed") :
          /\ calls' = [calls EXCEPT ![c] = resume(calls[c], outcome, ClientOf(calls[c]))]
          /\ heard' = [heard EXCEPT ![c] = Append(@, outcome)]
    /\ UNCHANGED <<proc, privateKey, clients, x, slots, conv>>

\* the upload endpoint answers
UploadAnswers(c) ==
    /\ c \in slots
    /\ calls[c].pc = "awaitUpload"
    /\ \E outcome \in Outcomes(Bodies("url", "https://kaiafun.io/img.png"),
                               {Obj("url", Str("https://kaiafun.io/img.png"))},
                               "Request failed") :
          /\ calls' = [calls EXCEPT ![c] = resume(calls[c], outcome, ClientOf(calls[c]))]
          /\ heard' = [heard EXCEPT ![c] = Append(@, outcome)]
    /\ UNCHANGED <<proc, privateKey, clients, x, slots, conv>>

\* the image's host answers axios.get with the content type of the image
DownloadAnswers(c) ==
    /\ c \in slots
    /\ calls[c].pc = "awaitDownload"
    /\ \E outcome \in Outcomes({Str("image/png")}, {Str("image/png")}, "Request failed") :
          /\ calls' = [calls EXCEPT ![c] = resume(calls[c], outcome, ClientOf(calls[c]))]
          /\ heard' = [heard EXCEPT ![c] = Append(@, outcome)]
    /\ UNCHANGED <<proc, privateKey, clients, x, slots, conv>>

\* publicClient.readContract answers
ReadAnswers(c) ==
    /\ c \in slots
    /\ calls[c].pc = "awaitRead"
    /\ \E outcome \in Outcomes({Str("CAT")}, {Str("CAT")}, "readContract failed") :
          /\ calls' = [calls EXCEPT ![c] = resume(calls[c], outcome, ClientOf(calls[c]))]
          /\ heard' = [heard EXCEPT ![c] = Append(@, outcome)]
    /\ UNCHANGED <<proc, privateKey, clients, x, slots, conv>>

\* the caller has taken the result; the slot serves another call
Forget(c) ==
    /\ c \in slots
    /\ calls[c].pc = "done"
    /\ calls' = [calls EXCEPT ![c] = IdleCall]
    /\ heard' = [heard EXCEPT ![c] = <<>>]
    /\ UNCHANGED <<proc, privateKey, clients, x, slots, conv>>

Next ==
    \/ Main
    \/ \E c \in Calls : CallTool(c)
    \/ \E c \in Calls : CallSdk(c)
    \/ \E c \in Calls : BalanceAnswers(c)
    \/ \E c \in Calls : PostAnswers(c)
    \/ \E c \in Calls : WriteAnswers(c)
    \/ \E c \in Calls : ReceiptAnswers(c)
    \/ \E c \in Calls : UploadAnswers(c)
    \/ \E c \in Calls : DownloadAnswers(c)
    \/ \E c \in Calls : ReadAnswers(c)
    \/ \E c \in Calls : Forget(c)

Spec == Init /\ [][Next]_vars

----------------------------------------------------------------------------
(* Two tool calls in flight on the server's client *)

InitConcurrent ==
    /\ proc = "boot"
    /\ privateKey = TRUE
    /\ clients = [n \in {"server", "sdk"} |-> NoClient]
    /\ calls = [c \in Calls |-> IdleCall]
    /\ heard = [c \in Calls |-> <<>>]
    /\ slots = Calls
    /\ x = XIdle
    /\ conv = ConvIdle

NextConcurrent ==
    \/ Main
    \/ \E c \in Calls : CallTool(c)
    \/ \E c \in Calls : BalanceAnswers(c)
    \/ \E c \in Calls : PostAnswers(c)
    \/ \E c \in Calls : WriteAnswers(c)
    \/ \E c \in Calls : ReceiptAnswers(c)
    \/ \E c \in Calls : UploadAnswers(c)
    \/ \E c \in Calls : DownloadAnswers(c)
    \/ \E c \in Calls : ReadAnswers(c)
    \/ \E c \in Calls : Forget(c)

SpecConcurrent == InitConcurrent /\ [][NextConcurrent]_vars

----------------------------------------------------------------------------
(* getEventFromReceipt on its own: any receipt (or none), any set of event  *)
(* shapes, any target name                                                  *)

ExtractLogs == {Log(sig, wf, data) : sig \in {"Trade", "List", "Other"},
                                     wf \in BOOLEAN, data \in {"0xa", "0xb"}}

InitExtract ==
    /\ proc = "boot"
    /\ privateKey = FALSE
    /\ clients = [n \in {"server", "sdk"} |-> NoClient]
    /\ calls = [c \in Calls |-> IdleCall]
    /\ heard = [c \in Calls |-> <<>>]
    /\ slots = {}
    /\ conv = ConvIdle
    /\ \E receipt \in {NoReceipt} \cup {Receipt("success", logs) : logs \in SeqsUpTo(ExtractLogs, MaxLogs)},
          abi \in SUBSET EventNames,
          eventName \in {Undefined} \cup {Str(n) : n \in EventNames} :
          x = [XIdle EXCEPT !.receipt = receipt, !.abi = abi, !.eventName = eventName]

Extract ==
    /\ x.applied < MaxApplications
    /\ x' = [x EXCEPT
                !.result = getEventFromReceipt(x.receipt, x.abi, x.eventName),
                !.previous = x.result,
                !.applied = @ + 1,
                !.receipt = IF @ = NoReceipt THEN @
                            ELSE [@ EXCEPT !.logs = logsAfterExtract(@)]]
    /\ UNCHANGED <<proc, privateKey, clients, calls, heard, slots, conv>>

NextExtract == Extract

SpecExtract == InitExtract /\ [][NextExtract]_vars

----------------------------------------------------------------------------
(* The conversion tools on their own: a decimal string goes through         *)
(* parse_ether, and the integer it prints goes through format_ether         *)

\* longest amount string
MaxStrLen == 4

ConvChars == {"0", "1", "5", ".", "-"}

InitConvert ==
    /\ proc = "serving"
    /\ privateKey = TRUE
    /\ clients = [n \in {"server", "sdk"} |-> IF n = "server" THEN setupKaiaFunClient ELSE NoClient]
    /\ calls = [c \in Calls |-> IdleCall]
    /\ heard = [c \in Calls |-> <<>>]
    /\ slots = {}
    /\ x = XIdle
    /\ \E input \in SeqsUpTo(ConvChars, MaxStrLen) \ {<<>>} :
          conv = [ConvIdle EXCEPT !.stage = "start", !.input = input]

\* parse_ether: `${amount} KAIA = ${parseEther(amount).toString()} wei`, or the
\* text of the catch block
ParseEtherTool ==
    /\ conv.stage = "start"
    /\ LET parsed == parseEtherString(conv.input)
       IN  conv' = IF parsed.threw THEN [conv EXCEPT !.stage = "failed"]
                   ELSE [conv EXCEPT !.stage = "parsed", !.wei = bigintToString(parsed.value)]
    /\ UNCHANGED <<proc, privateKey, clients, calls, x, heard, slots>>

\* format_ether on the integer parse_ether printed:
\* `${amount} wei = ${formatEther(BigInt(amount))} KAIA`
FormatEtherTool ==
    /\ conv.stage = "parsed"
    /\ LET value == BigIntOfString(conv.wei)
       IN  conv' = IF value.threw THEN [conv EXCEPT !.stage = "failed"]
                   ELSE [conv EXCEPT !.stage = "formatted", !.output = formatEther(value.value)]
    /\ UNCHANGED <<proc, privateKey, clients, calls, x, heard, slots>>

NextConvert == ParseEtherTool \/ FormatEtherTool

SpecConvert == InitConvert /\ [][NextConvert]_vars

----------------------------------------------------------------------------
(* Properties *)

Has(trace, e) == \E i \in 1..Len(trace) : trace[i] = e
Count(trace, e) == Cardinality({i \in 1..Len(trace) : trace[i] = e})
Last(seq) == seq[Len(seq)]
IsPrefix(p, q) == Len(p) <= Len(q) /\ \A i \in 1..Len(p) : p[i] = q[i]

Trading == {"buy", "sell", "list"}

\* the steps of a trace that talk to a collaborator
NetworkSteps(trace) == {i \in 1..Len(trace) : trace[i] \notin {"chainCheck", "decode"}}

ThrewMessage(rec, message) == rec.ret.type = "throw" /\ rec.ret.error.message = message

\* C1: on a client whose wallet connection has no chain or a chain other than
\* 8217, buy, sell and list raise 'Unsupported chain' and do no network I/O:
\* no balance read, no metadata POST, no submission, no receipt wait.
C1_UnsupportedChain ==
    \A c \in Calls :
        LET rec == calls[c]
        IN  (rec.op \in Trading /\ Has(rec.trace, "chainCheck")
                /\ ClientOf(rec).chainId # [js |-> "number", v |-> 8217])
            => /\ rec.pc = "done"
               /\ ThrewMessage(rec, "Unsupported chain")
               /\ NetworkSteps(rec.trace) = {}
               /\ rec.balance = <<>> /\ rec.posted = NoResult
               /\ rec.tx = NoTx /\ rec.receipt = NoReceipt

C1_Witness ==
    \E c \in Calls :
        /\ calls[c].op = "list" /\ calls[c].pc = "done"
        /\ ClientOf(calls[c]).chainId = Num(1)
        /\ ThrewMessage(calls[c], "Unsupported chain")

\* 10 units of the native currency in its smallest unit: 10^19
TenUnits == <<1>> \o Zeros(19)

C3_SubmitOnlyAfterHash ==
    \A c \in Calls :
        LET rec == calls[c]
        IN  (rec.op = "list" /\ Has(rec.trace, "writeContract"))
            => /\ rec.posted # NoResult
               /\ rec.posted.js = "object" /\ rec.posted.field = "hash"
               /\ rec.metadataHash.js = "string"

\* C4: a buy, sell or list whose transaction is mined with status revert
\* surfaces a failure: it never returns a normal {receipt, event} result and
\* the tool never reports 'Successfully ...'.
C4_RevertSurfaces ==
    \A c \in Calls :
        LET rec == calls[c]
        IN  (rec.op \in Trading /\ rec.pc = "done" /\ rec.receipt # NoReceipt
                /\ rec.receipt.status = "reverted")
            => /\ rec.ret.type = "throw"
               /\ rec.via = "tool"
                     => ~(rec.toolResult.type = "text"
                          /\ rec.toolResult.text[1] \in
                                {"Successfully listed new memecoin!",
                                 "Successfully bought memecoin!",
                                 "Successfully sold memecoin!"})

\* the decoded form of a log
Decoded(log) == [js |-> "object", eventName |-> Str(log.sig), args |-> log.data]

\* the logs of a sequence that decode against abi to an event named name
Matching(logs, abi, name) ==
    {i \in 1..Len(logs) : logs[i].wellFormed /\ logs[i].sig \in abi /\ Str(logs[i].sig) = name}

Least(S) == CHOOSE i \in S : \A j \in S : i <= j

\* C5: getEventFromReceipt returns the decoded form of the first log, in log
\* order, that decodes against the shapes and is named as the target; logs that
\* do not decode are skipped; the result is none for an absent receipt, for a
\* receipt without logs, and when no decodable log has the target's name.
C5_FirstMatchingLog ==
    x.applied >= 1 =>
        x.result =
            IF x.receipt = NoReceipt THEN Undefined
            ELSE LET m == Matching(x.receipt.logs, x.abi, x.eventName)
                 IN  IF m = {} THEN Undefined ELSE Decoded(x.receipt.logs[Least(m)])

C5_Witness ==
    /\ x.applied >= 1
    /\ x.receipt # NoReceipt
    /\ x.abi = {"Trade", "List"}
    /\ x.receipt.logs = <<Log("List", TRUE, "0xa"), Log("Trade", TRUE, "0xb")>>
    /\ x.eventName = Str("Trade")
    /\ x.result = Decoded(Log("Trade", TRUE, "0xb"))

C7_AbsentEventIsNoError ==
    \A c \in Calls :
        LET rec == calls[c]
        IN  (rec.op \in Trading /\ rec.pc = "done" /\ rec.receipt # NoReceipt
                /\ Matching(rec.receipt.logs, {"Trade", "List"},
                            Str(IF rec.op = "list" THEN "List" ELSE "Trade")) = {})
            => /\ rec.ret = [type |-> "return",
                             value |-> [receipt |-> rec.receipt, event |-> Undefined]]
               /\ rec.via = "tool"
                     => /\ rec.toolResult.type = "text"
                        /\ rec.toolResult.text[1] \in
                              {"Successfully listed new memecoin!",
                               "Successfully bought memecoin!",
                               "Successfully sold memecoin!"}

C7_Witness ==
    \E c \in Calls :
        /\ calls[c].op = "list" /\ calls[c].via = "tool" /\ calls[c].pc = "done"
        /\ calls[c].receipt # NoReceipt
        /\ calls[c].receipt.logs = <<Log("Trade", TRUE, "0xa")>>
        /\ calls[c].toolResult.type = "text"
        /\ calls[c].toolResult.text[2] = "Unknown"

\* the steps of an operation, each with its start and its completion
Pipeline(op) ==
    IF op = "list"
    THEN <<"chainCheck", "getBalance", "getBalance.done", "post", "post.done",
           "writeContract", "writeContract.done", "wait", "wait.done", "decode">>
    ELSE <<"chainCheck", "writeContract", "writeContract.done", "wait", "wait.done", "decode">>

\* a failed completion stands where the completion would
Completed(e) ==
    CASE e = "getBalance.failed" -> "getBalance.done"
      [] e = "post.failed" -> "post.done"
      [] e = "writeContract.failed" -> "writeContract.done"
      [] e = "wait.failed" -> "wait.done"
      [] OTHER -> e

Failures == {"getBalance.failed", "post.failed", "writeContract.failed", "wait.failed"}

\* C8: buy, sell and list run their steps in the order chain check, (list)
\* balance read, (list) metadata POST, submission, receipt wait, decode; each
\* step at most once, and none starts before the one before it has completed.
C8_StrictPipeline ==
    \A c \in Calls :
        LET rec == calls[c]
        IN  rec.op \in Trading
            => /\ IsPrefix([i \in 1..Len(rec.trace) |-> Completed(rec.trace[i])],
                           Pipeline(rec.op))
               /\ \A i \in 1..Len(rec.trace) :
                     rec.trace[i] \in Failures => i = Len(rec.trace) /\ rec.pc = "done"

C8_Witness ==
    \E c \in Calls : calls[c].op = "list" /\ calls[c].trace = Pipeline("list")

\* C9: the client never retries: when the submission or the receipt wait of
\* buy, sell or list fails, the operation raises that failure, runs no later
\* step and submits no second time.
C9_NoRetry ==
    \A c \in Calls :
        LET rec == calls[c]
        IN  /\ (rec.op \in Trading /\ Has(rec.trace, "writeContract.failed"))
               => /\ rec.pc = "done"
                  /\ ThrewMessage(rec, "writeContract failed")
                  /\ Last(rec.trace) = "writeContract.failed"
                  /\ Count(rec.trace, "writeContract") = 1
                  /\ rec.tx = NoTx /\ rec.receipt = NoReceipt
            /\ (rec.op \in Trading /\ Has(rec.trace, "wait.failed"))
               => /\ rec.pc = "done"
                  /\ ThrewMessage(rec, "waitForTransactionReceipt failed")
                  /\ Last(rec.trace) = "wait.failed"
                  /\ Count(rec.trace, "writeContract") = 1
                  /\ Count(rec.trace, "wait") = 1
                  /\ rec.receipt = NoReceipt

C9_Witness ==
    \E c \in Calls :
        /\ calls[c].op = "buy" /\ Has(calls[c].trace, "writeContract.failed")
        /\ calls[c].pc = "done"

\* C10: uploadImage never throws and returns a complete URL string or the
\* failure signal (null): a network failure, a non-2xx response and a 2xx
\* response with an empty body or a body without a url give the failure
\* signal; it makes one POST and no chain interaction.
C10_UploadUrlOrNull ==
    \A c \in Calls :
        LET rec == calls[c]
        IN  (rec.op = "uploadImage" /\ rec.pc = "done")
            => /\ rec.ret.type = "return"
               /\ \/ rec.ret.value = Null
                  \/ rec.ret.value.js = "string" /\ rec.ret.value.v # ""
               /\ (Has(rec.trace, "upload.failed")
                      \/ rec.posted \in {Str(""), Obj("message", Str("ok"))})
                     => rec.ret.value = Null
               /\ Count(rec.trace, "upload") = 1
               /\ rec.tx = NoTx /\ rec.balance = <<>> /\ rec.receipt = NoReceipt

\* the calls that came in as call-tool requests for a tool with a handler
Handled(rec) == rec.via = "tool" /\ rec.tool \in toolHandlers

\* C11: for every tool that has a handler, a failure inside the handler (a
\* schema violation, an uninitialized client, an error raised by the client
\* operation) ends in a returned text block that carries the error message;
\* the handler never throws.
C11_FailureIsText ==
    \A c \in Calls :
        LET rec == calls[c]
        IN  (Handled(rec) /\ rec.pc = "done")
            => /\ rec.toolResult.type = "text"
               /\ rec.ret.type = "throw"
                     => rec.toolResult.text[Len(rec.toolResult.text)] = rec.ret.error.message

\* C12: no tool call is served before the server's client is initialized:
\* without the private key the process exits and never serves, and whenever a
\* tool handler has run the server's client is set, so no handler answers
\* 'KaiaFun client not initialized'.
C12_ClientBeforeTools ==
    /\ ~privateKey => proc # "serving" /\ \A c \in Calls : calls[c].via # "tool"
    /\ proc = "exited" => ~privateKey /\ ~clients["server"].built
    /\ \A c \in Calls :
          LET rec == calls[c]
          IN  rec.via = "tool"
              => /\ proc = "serving"
                 /\ clients["server"].built
                 /\ rec.toolResult.type = "text"
                       => ~Has(rec.toolResult.text, "KaiaFun client not initialized")

C12_Witness ==
    /\ proc = "serving"
    /\ \E c \in Calls :
          /\ calls[c].tool = "get_wallet_address" /\ calls[c].pc = "done"
          /\ calls[c].toolResult = textContent(<<"Wallet Address: ", "0xsigner">>)

\* C13: a buy or sell whose amount is zero or negative is rejected with an
\* invalid-input error before any transaction is submitted, whether the
\* amount comes as the tool's amount string or as the client operation's
\* amount.
C13_NonPositiveAmountRejected ==
    \A c \in Calls :
        LET rec == calls[c]
        IN  (rec.op \in {"buy", "sell"} /\ ~positive(rec.input.amount))
            => /\ rec.tx = NoTx /\ rec.receipt = NoReceipt
               /\ rec.pc = "done" => rec.ret.type = "throw"

\* a non-negative decimal string with at most 18 fractional digits
Decimal18(s) ==
    /\ s # <<>> /\ s[1] # "-" /\ isDecimalString(s)
    /\ dotOf(s) # 0 => Len(s) - dotOf(s) <= 18

\* the decimal strings formatEther writes: an integer part without needless
\* leading zeros, and a fraction, when there is a ".", that is not empty and
\* does not end in 0
Canonical(s) ==
    /\ Decimal18(s)
    /\ LET dot == dotOf(s)
           int == IF dot = 0 THEN s ELSE SubSeq(s, 1, dot - 1)
       IN  /\ int # <<>>
           /\ Len(int) > 1 => int[1] # "0"
           /\ dot # 0 => dot < Len(s) /\ s[Len(s)] # "0"

\* C14 as stated: for every non-negative decimal string with at most 18
\* fractional digits, parse_ether followed by format_ether gives the string
\* back.
C14_RoundTripAnyString ==
    (conv.stage = "formatted" /\ Decimal18(conv.input)) => conv.output = conv.input

\* C14, amended: parse_ether followed by format_ether gives back every
\* canonical non-negative decimal string (no needless leading zeros, no
\* trailing zeros in the fraction, no empty integer part or fraction), and
\* takes every other accepted string to the canonical string of the same
\* number.
C14_RoundTripCanonical ==
    /\ Decimal18(conv.input) => conv.stage # "failed"
    /\ (conv.stage = "formatted" /\ Decimal18(conv.input))
          => /\ Canonical(conv.output)
             /\ parseEtherString(conv.output) = parseEtherString(conv.input)
             /\ Canonical(conv.input) => conv.output = conv.input

C14_Witness ==
    conv.stage = "formatted" /\ conv.input = <<"1", ".", "5">> /\ conv.output = conv.input
       /\ conv.wei = <<"1", "5">> \o charsOf(Zeros(17))

\* C15: the one call buy submits carries the caller's amount as value and
\* (tokenAddress, minTokenAmount) as arguments, minTokenAmount being 0 when
\* omitted; the one call sell submits carries no value and (tokenAddress,
\* amount, minBaseAmount, isOutputKAIA), minBaseAmount being 0 and
\* isOutputKAIA true when omitted; both go to the core contract address.
C15_BuySellCall ==
    \A c \in Calls :
        LET rec == calls[c]
            in == rec.input
        IN  /\ (rec.op = "buy" /\ Has(rec.trace, "writeContract"))
               => /\ Count(rec.trace, "writeContract") = 1
                  /\ rec.request =
                        [address |-> Str("KAIAFUN_CORE_ADDRESS"),
                         functionName |-> "buyWithETH",
                         args |-> <<in.tokenAddress,
                                    IF in.minTokenAmount = Undefined
                                    THEN Amount(FALSE, <<0>>) ELSE in.minTokenAmount>>,
                         value |-> in.amount]
                  /\ (rec.via = "tool" /\ rec.args.minTokenAmount = Undefined)
                        => rec.request.args[2] = Amount(FALSE, <<0>>)
            /\ (rec.op = "sell" /\ Has(rec.trace, "writeContract"))
               => /\ Count(rec.trace, "writeContract") = 1
                  /\ rec.request =
                        [address |-> Str("KAIAFUN_CORE_ADDRESS"),
                         functionName |-> "sell",
                         args |-> <<in.tokenAddress, in.amount,
                                    IF in.minBaseAmount = Undefined
                                    THEN Amount(FALSE, <<0>>) ELSE in.minBaseAmount,
                                    IF in.isOutputKAIA = Undefined
                                    THEN Bool(TRUE) ELSE in.isOutputKAIA>>,
                         value |-> Undefined]
                  /\ (rec.via = "tool" /\ rec.args.minBaseAmount = Undefined)
                        => rec.request.args[3] = Amount(FALSE, <<0>>)

C15_Witness ==
    \E c \in Calls :
        /\ calls[c].op = "sell" /\ calls[c].via = "sdk" /\ calls[c].tx # NoTx
        /\ calls[c].input.minBaseAmount = Undefined
        /\ calls[c].input.isOutputKAIA = Undefined
        /\ calls[c].request.args =
              <<Str("0xToken"), Amount(FALSE, <<1>>), Amount(FALSE, <<0>>), Bool(TRUE)>>

\* C16: the one call list submits carries (base token address, metadata.name,
\* metadata.symbol, metadataHash), metadataHash being the hash this
\* operation's own metadata POST returned, and its value is the fixed fee of
\* 10 units the balance was checked against.
C16_ListCall ==
    \A c \in Calls :
        LET rec == calls[c]
        IN  (rec.op = "list" /\ Has(rec.trace, "writeContract"))
            => /\ Count(rec.trace, "writeContract") = 1
               /\ Count(rec.trace, "post") = 1
               /\ Len(heard[c]) >= 2
               /\ heard[c][2].ok /\ heard[c][2].value = rec.posted
               /\ rec.request.functionName = "listWithETH"
               /\ rec.request.args =
                     <<Str("WETH_ADDRESS"), rec.input.metadata.name,
                       rec.input.metadata.symbol, prop(rec.posted, "hash").value>>
               /\ rec.request.value = Amount(FALSE, TenUnits)
               /\ ~bigLess(rec.balance, rec.request.value.mag)

C16_Witness ==
    \E c \in Calls :
        /\ calls[c].op = "list" /\ calls[c].tx # NoTx
        /\ calls[c].input.metadata.name = Str("Dog")
        /\ calls[c].posted = Obj("hash", Str("Qm2"))
        /\ calls[c].request.args[4] = Str("Qm2")
        /\ calls[c].balance = TenUnits

\* the fields of a token's metadata
MetadataFields ==
    {"name", "symbol", "description", "imageURL", "twitter", "telegram", "website"}

\* C17: the document list posts holds every field of the caller's metadata,
\* the optional social links included when they are supplied, together with
\* the signer address and a timestamp.
C17_DocumentComplete ==
    \A c \in Calls :
        LET rec == calls[c]
        IN  (rec.op = "list" /\ Has(rec.trace, "post"))
            => /\ rec.document # Undefined
               /\ {"creator", "t"} \subseteq DOMAIN rec.document
               /\ \A f \in MetadataFields :
                     rec.input.metadata[f] # Undefined
                        => f \in DOMAIN rec.document
                           /\ rec.document[f] = rec.input.metadata[f]

\* C18: every name the tool list advertises has a handler: a call-tool
\* request with that name reaches a handler and never fails with 'Unknown
\* tool'.
C18_AdvertisedHasHandler ==
    \A c \in Calls :
        LET rec == calls[c]
        IN  (rec.via = "tool" /\ rec.tool \in TOOL_DEFINITIONS)
            => /\ rec.tool \in toolHandlers
               /\ rec.toolResult # [type |-> "rejected", message |-> "Unknown tool"]

\* C19: upload_image leaves no temp file behind: once the image is in a temp
\* file, the file is deleted by the time the handler returns, whether the
\* upload succeeded, gave the failure signal or raised.
C19_NoTempFileLeft ==
    \A c \in Calls :
        LET rec == calls[c]
        IN  (rec.tool = "upload_image" /\ rec.pc = "done") => rec.tempFile # "exists"

\* a call as it was when it came in
StartOf(rec) ==
    IF rec.via = "tool"
    THEN callTool([IdleCall EXCEPT !.via = "tool", !.tool = rec.tool, !.args = rec.args],
                  clients["server"])
    ELSE enter([IdleCall EXCEPT !.via = "sdk", !.op = rec.op, !.input = rec.input],
               clients["sdk"])

\* a call run alone from rec over the answers given
RECURSIVE Replay(_, _, _)
Replay(rec, answers, client) ==
    IF answers = <<>> THEN rec
    ELSE Replay(resume(rec, Head(answers), client), Tail(answers), client)

====
